---- MODULE Spec2Model ----
(***************************************************************************)
(* Model of flopy.modflow.mfzon.ModflowZon: the package constructor,       *)
(* write_file() and the static load() method, run against one model        *)
(* object and one zone file.                                               *)
(*                                                                         *)
(* A file is a sequence of lines, a line the sequence of its               *)
(* whitespace-separated tokens (what line.strip().split() returns), a      *)
(* token a sequence of one-character strings.                              *)
(***************************************************************************)
EXTENDS Integers, Sequences, FiniteSets, TLC

\* ---------------------------------------------------------------- bounds
MaxComments == 1
MaxRecs == 2
MaxCalls == 2
ModelNrow == 2
ModelNcol == 3
ArgNrow == 4
ArgNcol == 5

\* ------------------------------------------------------- python constants
\* Python's None, for the optional integer arguments nrow, ncol and locat.
None == -1
\* "no package object" (load has not returned one); package ids start at 1.
NoPkg == 0
\* zone names are cut to this many characters
NameLen == 10
DefaultExtension == "zon"
DefaultUnitnumber == 1001
\* what the class docstring states as the defaults
DocExtension == "drn"
DocUnitnumber == 21

\* ------------------------------------------------------------- characters
Upper ==
  <<"A","B","C","D","E","F","G","H","I","J","K","L","M",
    "N","O","P","Q","R","S","T","U","V","W","X","Y","Z">>
Lower ==
  <<"a","b","c","d","e","f","g","h","i","j","k","l","m",
    "n","o","p","q","r","s","t","u","v","w","x","y","z">>
Digits == <<"0","1","2","3","4","5","6","7","8","9">>

\* str.lower() on one character
lowerChar(c) ==
  IF \E i \in 1..Len(Upper) : Upper[i] = c
    THEN Lower[CHOOSE i \in 1..Len(Upper) : Upper[i] = c]
    ELSE c

\* str.lower()
lower(s) == [i \in 1..Len(s) |-> lowerChar(s[i])]

IsDigit(c) == \E i \in 1..Len(Digits) : Digits[i] = c
DigitVal(c) == (CHOOSE i \in 1..Len(Digits) : Digits[i] = c) - 1

\* int(s) succeeds (decimal digits only, in this alphabet)
IsInt(s) == Len(s) > 0 /\ \A i \in 1..Len(s) : IsDigit(s[i])

RECURSIVE IntOf(_)
\* int(s) for a string of decimal digits
IntOf(s) ==
  IF Len(s) = 0 THEN 0
  ELSE 10 * IntOf(SubSeq(s, 1, Len(s) - 1)) + DigitVal(s[Len(s)])

\* the zone name load() derives from the first token of a name line
ZonNam(t0) ==
  IF Len(t0) > NameLen THEN lower(SubSeq(t0, 1, NameLen)) ELSE lower(t0)

\* -------------------------------------------------------------- the input
KwConstant == <<"C","O","N","S","T","A","N","T">>
KwExternal == <<"E","X","T","E","R","N","A","L">>
ShortName == <<"Z","n","A">>
LongName == <<"R","i","v","e","r","_","V","a","l","l","e","y">>

CommentLine == << <<"#">>, <<"z","o","n","e">> >>
BlankLine == << >>
CountLines ==
  { << <<"0">> >>, << <<"1">> >>, << <<"2">> >>, << <<"x">> >>, BlankLine }
ConstantLine == << KwConstant, <<"7">> >>
ExternalLine == << KwExternal, <<"5","2">> >>
\* what a file holds where load() expects a zone record: a name line and an
\* array control record, a blank line, or a name line with nothing after it
Records ==
  { << <<ShortName>>, ConstantLine >>, << <<LongName>>, ExternalLine >>,
    << <<ShortName>>, ExternalLine >>, << BlankLine >>, << <<ShortName>> >> }

Comments(k) == [i \in 1..k |-> CommentLine]
RECURSIVE Concat(_)
Concat(ss) == IF Len(ss) = 0 THEN << >> ELSE Head(ss) \o Concat(Tail(ss))

Bodies == { Concat(rs) : rs \in UNION { [1..m -> Records] : m \in 0..MaxRecs } }
FileLines ==
  { Comments(k) \o rest :
      k \in 0..MaxComments,
      rest \in { << >> } \cup { <<c>> \o b : c \in CountLines, b \in Bodies } }
Files ==
  { [exists |-> FALSE, lines |-> << >>] }
    \cup { [exists |-> TRUE, lines |-> l] : l \in FileLines }

UserZoneDicts ==
  { << [name |-> lower(ShortName),
        arr |-> [nrow |-> ModelNrow, ncol |-> ModelNcol, cnstnt |-> 7,
                 locat |-> None]] >> }

VARIABLES
  file,          \* the zone file on disk: [exists, lines]
  packagelist,   \* model.packagelist
  pop_key_list,  \* model.pop_key_list
  nextid,        \* identity of the next object constructed
  pc,            \* position inside load(): idle when no call is running
  arg_nrow, arg_ncol,   \* the arguments of the running load()
  pos,           \* read position of the handle f (index of the next line)
  line,          \* local: what f.readline() returned, [eof, toks]
  nzn, nrow, ncol, n, zonnam, zone_dict,   \* locals of load()
  result,        \* the package load() returned
  exc,           \* the exception that left load()
  pkgs0,         \* history: packagelist when the running load() was called
  shapes,        \* history: the shapes passed to Util2d.load by this call
  nread,         \* history: arrays Util2d.load returned to this call
  addlog,        \* history: add_package calls during this call
  origin,        \* history: how each package of packagelist was made
  wrote,         \* history: id of the package write_file() was last called on
  ncalls         \* history: constructor and load() calls made so far

vars ==
  << file, packagelist, pop_key_list, nextid, pc, arg_nrow, arg_ncol, pos,
     line, nzn, nrow, ncol, n, zonnam, zone_dict, result, exc, pkgs0, shapes,
     nread, addlog, origin, wrote, ncalls >>

model_vars == << packagelist, pop_key_list, nextid, origin >>
fixed_vars == << file, wrote, ncalls >>
local_vars == << pos, line, nzn, nrow, ncol, n, zonnam, zone_dict >>
hist_vars == << pkgs0, shapes, nread, addlog >>

NoLine == [eof |-> FALSE, toks |-> << >>]

Init ==
  /\ file \in Files
  /\ packagelist = << >>
  /\ pop_key_list = << >>
  /\ nextid = 1
  /\ pc = "idle"
  /\ arg_nrow = None /\ arg_ncol = None
  /\ pos = 1
  /\ line = NoLine
  /\ nzn = 0 /\ nrow = None /\ ncol = None /\ n = 0
  /\ zonnam = << >> /\ zone_dict = << >>
  /\ result = NoPkg
  /\ exc = "none"
  /\ pkgs0 = << >>
  /\ shapes = << >>
  /\ nread = 0
  /\ addlog = << >>
  /\ origin = << >>
  /\ wrote = NoPkg
  /\ ncalls = 0

\* ------------------------------------------------------ model and package
\* Package.__init__: sets parent, extension, name and unit number
PackageInit(id, extension, name, unitnumber) ==
  [id |-> id, extension |-> extension, name |-> name,
   unit_number |-> unitnumber]

\* model.add_package(p)
add_package(plist, p) == Append(plist, p)

\* model.add_pop_key_list(key)
add_pop_key_list(klist, key) == Append(klist, key)

\* model.get_nrow_ncol_nlay_nper(), the first two components
get_nrow_ncol == << ModelNrow, ModelNcol >>

\* OrderedDict: d[k] = v
DictSet(d, k, v) ==
  IF \E i \in 1..Len(d) : d[i].name = k
    THEN [i \in 1..Len(d) |-> IF d[i].name = k THEN [name |-> k, arr |-> v]
                                                ELSE d[i]]
    ELSE Append(d, [name |-> k, arr |-> v])

\* ModflowZon.__init__: the object it builds.  hasdict is "zone_dict is not
\* None"; without it the attribute zone_dict is never set (kept here as the
\* empty dictionary) and nzn stays 0.
ModflowZonObject(id, hasdict, zd, extension, unitnumber) ==
  PackageInit(id, extension, "ZONE", unitnumber) @@
  [heading |-> "# ZONE for MODFLOW, generated by Flopy.",
   url |-> "zon.htm",
   nzn |-> IF hasdict THEN Len(zd) ELSE 0,
   has_zone_dict |-> hasdict,
   zone_dict |-> IF hasdict THEN zd ELSE << >>]

\* ModflowZon.__init__ without its last statement: the package is built but
\* never handed to the model
ModflowZonInitNoAdd(plist, id, hasdict, zd, extension, unitnumber) == plist

\* ModflowZon.__init__: its effect on the model's package list
ModflowZonInit(plist, id, hasdict, zd, extension, unitnumber) ==
  add_package(plist, ModflowZonObject(id, hasdict, zd, extension, unitnumber))

\* f.readline() at position p
ReadLine(p) ==
  IF p > Len(file.lines) THEN [eof |-> TRUE, toks |-> << >>]
  ELSE [eof |-> FALSE, toks |-> file.lines[p]]

\* Util2d.load(f, model, shape, dtype, name, ext_unit_dict): reads the array
\* control record at position p.  ok = FALSE when it raises.
Util2dLoad(p, shape) ==
  LET l == ReadLine(p)
      t == l.toks
  IN  IF shape[1] = None \/ shape[2] = None \/ l.eof \/ Len(t) < 2
        THEN [ok |-> FALSE]
      ELSE IF t[1] = KwConstant /\ IsInt(t[2])
        THEN [ok |-> TRUE,
              arr |-> [nrow |-> shape[1], ncol |-> shape[2],
                       cnstnt |-> IntOf(t[2]), locat |-> None]]
      ELSE IF t[1] = KwExternal /\ IsInt(t[2])
        THEN [ok |-> TRUE,
              arr |-> [nrow |-> shape[1], ncol |-> shape[2],
                       cnstnt |-> 1, locat |-> IntOf(t[2])]]
      ELSE [ok |-> FALSE]

\* ---------------------------------------------------------------- actions
\* an exception leaves load(): nothing after the raising statement runs
Raise(e) == pc' = "raised" /\ exc' = e

IsComment(l) == ~l.eof /\ Len(l.toks) > 0 /\ l.toks[1][1] = "#"

\* ModflowZon(model, zone_dict=..., [extension=..., unitnumber=...]) called
\* by the user; omit = the caller leaves extension and unitnumber out
Construct(hasdict, zd, omit) ==
  /\ pc = "idle"
  /\ ncalls < MaxCalls
  /\ ncalls' = ncalls + 1
  /\ LET extension == IF omit THEN DefaultExtension ELSE "zn2"
         unitnumber == IF omit THEN DefaultUnitnumber ELSE 55
     IN  packagelist' =
           ModflowZonInit(packagelist, nextid, hasdict, zd, extension,
                          unitnumber)
  /\ nextid' = nextid + 1
  /\ origin' = Append(origin, [how |-> "ctor", defaults |-> omit,
                               nrow |-> None, ncol |-> None])
  /\ UNCHANGED << file, pop_key_list, pc, arg_nrow, arg_ncol, result, exc,
                  wrote >>
  /\ UNCHANGED local_vars
  /\ UNCHANGED hist_vars

\* write_file() that writes the heading line, as the other packages' do
WriteFileHeading(i) ==
  /\ pc = "idle"
  /\ i \in 1..Len(packagelist)
  /\ file' = [exists |-> TRUE, lines |-> << CommentLine >>]
  /\ wrote' = packagelist[i].id
  /\ UNCHANGED << pc, arg_nrow, arg_ncol, result, exc, ncalls >>
  /\ UNCHANGED model_vars
  /\ UNCHANGED local_vars
  /\ UNCHANGED hist_vars

\* packagelist[i].write_file(): the body is "pass"
WriteFile(i) ==
  /\ pc = "idle"
  /\ i \in 1..Len(packagelist)
  /\ file' = file
  /\ wrote' = packagelist[i].id
  /\ UNCHANGED << pc, arg_nrow, arg_ncol, result, exc, ncalls >>
  /\ UNCHANGED model_vars
  /\ UNCHANGED local_vars
  /\ UNCHANGED hist_vars

\* ModflowZon.load(filename, model, nrow=nr, ncol=nc) is called
LoadCall(nr, nc) ==
  /\ pc = "idle"
  /\ ncalls < MaxCalls
  /\ ncalls' = ncalls + 1
  /\ arg_nrow' = nr /\ arg_ncol' = nc
  /\ nrow' = nr /\ ncol' = nc
  /\ pkgs0' = packagelist
  /\ shapes' = << >> /\ nread' = 0 /\ addlog' = << >>
  /\ result' = NoPkg /\ exc' = "none"
  /\ pc' = "open"
  /\ UNCHANGED << file, wrote, pos, line, nzn, n, zonnam, zone_dict >>
  /\ UNCHANGED model_vars

\* f = open(filename, 'r')
LoadOpen ==
  /\ pc = "open"
  /\ IF file.exists
       THEN pos' = 1 /\ pc' = "header" /\ exc' = exc
       ELSE Raise("IOError") /\ pos' = pos
  /\ UNCHANGED << file, wrote, ncalls, arg_nrow, arg_ncol, result, line, nzn, nrow,
                  ncol, n, zonnam, zone_dict >>
  /\ UNCHANGED model_vars
  /\ UNCHANGED hist_vars

\* dataset 0: one pass of the "while True" loop over the header
LoadHeader ==
  /\ pc = "header"
  /\ LET l == ReadLine(pos)
     IN  /\ line' = l
         /\ pos' = IF l.eof THEN pos ELSE pos + 1
         /\ IF l.eof THEN Raise("IndexError")
            ELSE IF IsComment(l) THEN pc' = "header" /\ exc' = exc
            ELSE pc' = "dataset1" /\ exc' = exc
  /\ UNCHANGED << file, wrote, ncalls, arg_nrow, arg_ncol, result, nzn, nrow, ncol,
                  n, zonnam, zone_dict >>
  /\ UNCHANGED model_vars
  /\ UNCHANGED hist_vars

\* dataset 1, the dimensions, and the empty zone dictionary
LoadDataset1 ==
  /\ pc = "dataset1"
  /\ LET t == line.toks
     IN  IF Len(t) = 0
           THEN Raise("IndexError") /\ UNCHANGED << nzn, nrow, ncol >>
         ELSE IF ~IsInt(t[1])
           THEN Raise("ValueError") /\ UNCHANGED << nzn, nrow, ncol >>
         ELSE /\ nzn' = IntOf(t[1])
              /\ IF nrow = None /\ ncol = None
                   THEN nrow' = get_nrow_ncol[1] /\ ncol' = get_nrow_ncol[2]
                   ELSE UNCHANGED << nrow, ncol >>
              /\ pc' = "loop" /\ exc' = exc
  /\ zone_dict' = << >>
  /\ n' = 0
  /\ UNCHANGED << file, wrote, ncalls, arg_nrow, arg_ncol, result, pos, line,
                  zonnam >>
  /\ UNCHANGED model_vars
  /\ UNCHANGED hist_vars

\* the loop with a recovery policy: a blank or missing zone-name line is
\* skipped instead of raising
LoadLoopSkipBlank ==
  /\ pc = "loop"
  /\ IF n < nzn
       THEN LET l == ReadLine(pos)
            IN  /\ line' = l
                /\ pos' = IF l.eof THEN pos ELSE pos + 1
                /\ exc' = exc
                /\ IF Len(l.toks) = 0
                     THEN zonnam' = zonnam /\ n' = n + 1 /\ pc' = "loop"
                     ELSE /\ zonnam' = ZonNam(l.toks[1])
                          /\ n' = n /\ pc' = "array"
       ELSE /\ pc' = "construct" /\ exc' = exc
            /\ UNCHANGED << line, pos, zonnam, n >>
  /\ UNCHANGED << file, wrote, ncalls, arg_nrow, arg_ncol, result, nzn, nrow,
                  ncol, zone_dict >>
  /\ UNCHANGED model_vars
  /\ UNCHANGED hist_vars

\* "for n in range(nzn)": the loop test and the zone-name line
LoadLoop ==
  /\ pc = "loop"
  /\ IF n < nzn
       THEN LET l == ReadLine(pos)
            IN  /\ line' = l
                /\ pos' = IF l.eof THEN pos ELSE pos + 1
                /\ IF Len(l.toks) = 0
                     THEN Raise("IndexError") /\ zonnam' = zonnam
                     ELSE /\ zonnam' = ZonNam(l.toks[1])
                          /\ pc' = "array" /\ exc' = exc
       ELSE /\ pc' = "construct" /\ exc' = exc
            /\ UNCHANGED << line, pos, zonnam >>
  /\ UNCHANGED << file, wrote, ncalls, arg_nrow, arg_ncol, result, nzn, nrow, ncol,
                  n, zone_dict >>
  /\ UNCHANGED model_vars
  /\ UNCHANGED hist_vars

\* the rest of the loop body: Util2d.load, add_pop_key_list, zone_dict[..]
LoadArray ==
  /\ pc = "array"
  /\ shapes' = Append(shapes, << nrow, ncol >>)
  /\ LET t == Util2dLoad(pos, << nrow, ncol >>)
     IN  IF ~t.ok
           THEN /\ Raise("Util2dError")
                /\ UNCHANGED << pos, nread, pop_key_list, zone_dict, n >>
           ELSE /\ pos' = pos + 1
                /\ nread' = nread + 1
                /\ pop_key_list' =
                     IF t.arr.locat # None
                       THEN add_pop_key_list(pop_key_list, t.arr.locat)
                       ELSE pop_key_list
                /\ zone_dict' = DictSet(zone_dict, zonnam, t.arr)
                /\ n' = n + 1
                /\ pc' = "loop" /\ exc' = exc
  /\ UNCHANGED << file, wrote, ncalls, arg_nrow, arg_ncol, result, line, nzn, nrow,
                  ncol, zonnam, packagelist, nextid, origin, pkgs0, addlog >>

\* zon = ModflowZon(model, zone_dict=zone_dict); return zon
LoadConstruct ==
  /\ pc = "construct"
  /\ packagelist' =
       ModflowZonInit(packagelist, nextid, TRUE, zone_dict, DefaultExtension,
                      DefaultUnitnumber)
  /\ addlog' = Append(addlog, [id |-> nextid, nread |-> nread])
  /\ origin' = Append(origin, [how |-> "load", defaults |-> TRUE,
                               nrow |-> arg_nrow, ncol |-> arg_ncol])
  /\ result' = nextid
  /\ nextid' = nextid + 1
  /\ pc' = "done"
  /\ UNCHANGED << file, wrote, ncalls, arg_nrow, arg_ncol, exc, pop_key_list, pkgs0,
                  shapes, nread >>
  /\ UNCHANGED local_vars

\* control is back in the caller, with the package or with the exception
LoadReturn ==
  /\ pc \in {"done", "raised"}
  /\ pc' = "idle"
  /\ arg_nrow' = None /\ arg_ncol' = None
  /\ pos' = 1 /\ line' = NoLine
  /\ nzn' = 0 /\ nrow' = None /\ ncol' = None /\ n' = 0
  /\ zonnam' = << >> /\ zone_dict' = << >>
  /\ result' = NoPkg /\ exc' = "none"
  /\ pkgs0' = << >> /\ shapes' = << >> /\ nread' = 0 /\ addlog' = << >>
  /\ UNCHANGED fixed_vars
  /\ UNCHANGED model_vars

Next ==
  \/ \E hasdict \in BOOLEAN, zd \in UserZoneDicts, omit \in BOOLEAN :
       Construct(hasdict, zd, omit)
  \/ \E i \in 1..MaxCalls : WriteFile(i)
  \/ \E nr \in {None, ArgNrow}, nc \in {None, ArgNcol} : LoadCall(nr, nc)
  \/ LoadOpen
  \/ LoadHeader
  \/ LoadDataset1
  \/ LoadLoop
  \/ LoadArray
  \/ LoadConstruct
  \/ LoadReturn

Spec == Init /\ [][Next]_vars

\* ----------------------------------------------------------- properties
InLoad == pc \in {"open", "header", "dataset1", "loop", "array", "construct"}
Returning == pc \in {"done", "raised"}

\* the zone data of a package: names, their order, the arrays, and nzn
ZoneData(p) == [nzn |-> p.nzn, zone_dict |-> p.zone_dict]

RECURSIVE HeaderLen(_)
\* the number of comment lines a file starts with
HeaderLen(lines) ==
  IF Len(lines) > 0 /\ Len(lines[1]) > 0 /\ lines[1][1][1] = "#"
    THEN 1 + HeaderLen(Tail(lines))
    ELSE 0

HasCount(lines) ==
  /\ HeaderLen(lines) + 1 <= Len(lines)
  /\ Len(lines[HeaderLen(lines) + 1]) > 0
  /\ IsInt(lines[HeaderLen(lines) + 1][1])

\* the zone count dataset 1 declares
Declared(lines) == IntOf(lines[HeaderLen(lines) + 1][1])

\* the three malformations: the zone count is not an integer, there are
\* fewer zone records (name line + array record) than declared, a zone-name
\* line is blank
Malformed(lines) ==
  LET h == HeaderLen(lines)
  IN  \/ /\ h + 1 <= Len(lines)
         /\ Len(lines[h + 1]) > 0
         /\ ~IsInt(lines[h + 1][1])
      \/ /\ HasCount(lines)
         /\ Len(lines) - (h + 1) < 2 * Declared(lines)
      \/ /\ HasCount(lines)
         /\ \E j \in 0..(Declared(lines) - 1) :
              /\ h + 2 + 2 * j <= Len(lines)
              /\ lines[h + 2 + 2 * j] = BlankLine

ExpectedShape ==
  << IF arg_nrow # None THEN arg_nrow ELSE get_nrow_ncol[1],
     IF arg_ncol # None THEN arg_ncol ELSE get_nrow_ncol[2] >>

\* C2: for every combination of nrow and ncol given or None, the shape
\* passed to the array loader for every zone has no None component, with the
\* caller's value where one was given and the model's value otherwise.
ShapeFromCallerOrModel_C2 ==
  \A i \in 1..Len(shapes) :
    /\ shapes[i][1] # None
    /\ shapes[i][2] # None
    /\ shapes[i] = ExpectedShape

\* C3: on malformed input load() does not succeed; when an exception leaves
\* load() no package was returned or added (no add_package call, the package
\* list is as it was before the call), and the next step is the return to
\* the caller, which leaves the package list alone: no recovery, no retry.
MalformedRaises_C3 ==
  /\ [](pc = "done" => ~Malformed(file.lines))
  /\ [](pc = "raised" => /\ exc # "none"
                         /\ result = NoPkg
                         /\ addlog = << >>
                         /\ packagelist = pkgs0)
  /\ [][pc = "raised" => pc' = "idle" /\ packagelist' = packagelist]_vars

MalformedRaises_C3_Witness ==
  /\ pc = "raised"
  /\ exc = "IndexError"
  /\ Malformed(file.lines)
  /\ n = 1
  /\ Len(pkgs0) = 1
  /\ packagelist = pkgs0

\* C4: a package constructed without the extension and unitnumber arguments
\* has filename extension 'drn' and file unit number 21.
DocumentedDefaults_C4 ==
  \A i \in 1..Len(packagelist) :
    origin[i].defaults =>
      /\ packagelist[i].extension = DocExtension
      /\ packagelist[i].unit_number = DocUnitnumber

\* C5: a successful load() makes exactly one add_package call, with the
\* package it returns, after all declared zone arrays have been read; while
\* load() is still running the model has received no package.
AddPackageOnceAtEnd_C5 ==
  /\ InLoad => addlog = << >> /\ packagelist = pkgs0
  /\ pc = "done" =>
       /\ Len(addlog) = 1
       /\ addlog[1].id = result
       /\ addlog[1].nread = Declared(file.lines)
       /\ Len(packagelist) = Len(pkgs0) + 1
       /\ SubSeq(packagelist, 1, Len(pkgs0)) = pkgs0
       /\ packagelist[Len(packagelist)].id = result

AddPackageOnceAtEnd_C5_Witness ==
  /\ pc = "done"
  /\ nread = 2
  /\ Len(pkgs0) = 1
  /\ Len(pop_key_list) > 0
  /\ packagelist[Len(packagelist)].id = result

====
